---- MODULE Spec2Model ----
(***************************************************************************)
(* Inspectra-Gadget: the filter pipeline (filters.py) and the parts of the *)
(* editor that own a dataset's filter list (main.py: Data, Editor).        *)
(*                                                                         *)
(* Numbers are integers: measurement values, coordinates and the settings  *)
(* parsed from strings.  Derivative and Divide are computed where their    *)
(* results are whole numbers and answer with the outcome NotModelled       *)
(* where they are not.  Transforms whose results are never integers        *)
(* (Smoothen, Normalize, Logarithm, Band cut, and the polynomial fit of    *)
(* Sav-Gol) are registered by name but their arithmetic is outside the     *)
(* model; they answer with the outcome NotModelled too.                    *)
(*                                                                         *)
(* Datasets are the ones without a meta.json (Data.meta_data = None), so   *)
(* apply_all_filters goes from processed_to_raw straight to the filters;   *)
(* the specification SpecMeta has a dataset with a meta.json whose         *)
(* channels need no unit conversion and no rc-filter correction.           *)
(*                                                                         *)
(* An exception that leaves a handler is reported by the Qt binding and    *)
(* the event loop goes on with the state the handler left behind; a        *)
(* binding that aborts the process instead adds no further states.         *)
(***************************************************************************)
EXTENDS Integers, Sequences, FiniteSets, TLC

VARIABLES
    raw_data,        \* Data.raw_data: the arrays as loaded, one per column
    loaded_data,     \* the arrays load_data read (never written afterwards)
    meta_data,       \* Data.meta_data: TRUE when the dataset came with a meta.json
    heap,            \* the filter lists and records alive, by identity (SpecShare)
    processed_data,  \* Data.processed_data: list of [ref, a] array references
    filters,         \* Data.filters: ordered filter instances
    filters_type,    \* "list" or "ndarray": the Python container of Data.filters
    oldFilters,      \* Data.oldFilters: copy taken by filters_table_edited
    copied_filters,  \* Editor.copied_filters: [set, type, items]
    table,           \* Editor.filters_table: the rows on screen
    error,           \* exception the last handler ended with ("" = returned)
    last,            \* the handler that ran last
    steps,           \* number of handlers run so far
    targs,           \* a direct call of the pipeline: its arguments
    tres             \* a direct call of the pipeline: its outcome

vars == <<raw_data, loaded_data, meta_data, heap, processed_data, filters, filters_type, oldFilters,
          copied_filters, table, error, last, steps, targs, tres>>

guiVars == <<raw_data, loaded_data, meta_data, heap, processed_data, filters, filters_type, oldFilters,
             copied_filters, table, error, last, steps>>

----------------------------------------------------------------------------
(* Python and numpy helpers                                                *)

Min2(a, b) == IF a < b THEN a ELSE b

Max2(a, b) == IF a > b THEN a ELSE b

Abs(x) == IF x < 0 THEN -x ELSE x

RECURSIVE SeqMin(_)
SeqMin(s) == IF Len(s) = 1 THEN s[1] ELSE Min2(s[1], SeqMin(Tail(s)))

RECURSIVE SeqMax(_)
SeqMax(s) == IF Len(s) = 1 THEN s[1] ELSE Max2(s[1], SeqMax(Tail(s)))

RECURSIVE Flatten(_)
Flatten(rows) == IF rows = <<>> THEN <<>> ELSE rows[1] \o Flatten(Tail(rows))

Reverse(s) == [i \in 1..Len(s) |-> s[Len(s) + 1 - i]]

\* indices kept by a boolean selector, in order
RECURSIVE SelectIdx(_, _)
SelectIdx(s, keep) ==
    IF s = <<>> THEN <<>>
    ELSE (IF keep[1] THEN <<s[1]>> ELSE <<>>) \o SelectIdx(Tail(s), Tail(keep))

\* a[start:stop] of Python: a negative index counts from the end, both clamp
PyIndex(i, n) == IF i < 0 THEN Max2(i + n, 0) ELSE Min2(i, n)

PySlice(s, start, stop) ==
    SubSeq(s, PyIndex(start, Len(s)) + 1, PyIndex(stop, Len(s)))

\* float(s) / int(s) on the setting strings of the model; anything else raises
NumTable ==
    ("-10" :> -10) @@ ("-2" :> -2) @@ ("-1" :> -1) @@ ("0" :> 0) @@ ("1" :> 1) @@
    ("2" :> 2) @@ ("3" :> 3) @@ ("4" :> 4) @@ ("5" :> 5) @@ ("6" :> 6) @@
    ("7" :> 7) @@ ("10" :> 10) @@ ("20" :> 20) @@ ("25" :> 25) @@
    ("600" :> 600) @@ ("800" :> 800)

CanParse(s) == s \in DOMAIN NumTable

Parse(s) == NumTable[s]

\* str(n) for the integers a setting can name
----------------------------------------------------------------------------
(* numpy arrays: shape, values (a sequence, or a sequence of rows), and    *)
(* for a one-dimensional numpy.ma array its mask                            *)

Arr1(v) == [shape |-> <<Len(v)>>, v |-> v, mask |-> [i \in 1..Len(v) |-> FALSE]]

Arr2(rows, nc) == [shape |-> <<Len(rows), nc>>, v |-> rows, mask |-> <<>>]

ndim(a) == Len(a.shape)

\* the elements np.min / np.max see (masked ones are skipped)
Elems(a) ==
    IF ndim(a) = 2 THEN Flatten(a.v)
    ELSE SelectIdx(a.v, [i \in 1..Len(a.v) |-> ~a.mask[i]])

\* a op= c: elementwise, masked elements keep their value
MapArr(a, F(_)) ==
    IF ndim(a) = 2
    THEN [a EXCEPT !.v = [i \in 1..Len(a.v) |-> [j \in 1..Len(a.v[i]) |-> F(a.v[i][j])]]]
    ELSE [a EXCEPT !.v = [i \in 1..Len(a.v) |-> IF a.mask[i] THEN a.v[i] ELSE F(a.v[i])]]

\* np.copy(a)
NpCopy(a) == a

----------------------------------------------------------------------------
(* Outcome of a transform: err = "" when it returned, else the exception;  *)
(* out[i] is the array now at tuple position i and buf the input position  *)
(* whose buffer it still is (0 = a newly allocated array).                 *)

Keep(data, i) == [buf |-> i, a |-> data[i]]

InPlace(i, a) == [buf |-> i, a |-> a]

New(a) == [buf |-> 0, a |-> a]

Same(data) == [i \in 1..Len(data) |-> Keep(data, i)]

Ok(out) == [err |-> "", out |-> out]

Raise(e, data) == [err |-> e, out |-> Same(data)]

----------------------------------------------------------------------------
(* filters.py: the transforms.  data is the list of arrays (position 1 is  *)
(* data[0], position Len(data) is data[-1]).                               *)

\* the array at tuple position tgt is changed in place by F
InPlaceAt(data, tgt, F(_)) ==
    Ok([i \in 1..Len(data) |->
          IF i = tgt THEN InPlace(i, MapArr(data[i], F)) ELSE Keep(data, i)])

\* data[-1] is rebound to the new array a
Rebind(data, a) ==
    Ok([i \in 1..Len(data) |-> IF i = Len(data) THEN New(a) ELSE Keep(data, i)])

offset_new_array(data, method, setting1, setting2) ==
    LET tgt == IF method = "X" THEN 1
               ELSE IF method = "Y" THEN 2
               ELSE IF method = "Z" /\ Len(data) = 3 THEN 3 ELSE 0
    IN  IF tgt = 0 THEN Ok(Same(data))
        ELSE IF ~CanParse(setting1) THEN Raise("ValueError", data)
        ELSE Ok([i \in 1..Len(data) |->
                   IF i = tgt THEN New(MapArr(data[i], LAMBDA x : x + Parse(setting1)))
                   ELSE Keep(data, i)])

offset(data, method, setting1, setting2) ==
    LET tgt == IF method = "X" THEN 1
               ELSE IF method = "Y" THEN 2
               ELSE IF method = "Z" /\ Len(data) = 3 THEN 3 ELSE 0
    IN  IF tgt = 0 THEN Ok(Same(data))
        ELSE IF ~CanParse(setting1) THEN Raise("ValueError", data)
        ELSE InPlaceAt(data, tgt, LAMBDA x : x + Parse(setting1))

absolute(data, method, setting1, setting2) ==
    Rebind(data, MapArr(data[Len(data)], Abs))

axis == ("X" :> 0) @@ ("Y" :> 1) @@ ("Z" :> 2)

mulitply(data, method, setting1, setting2) ==
    IF method \notin DOMAIN axis THEN Raise("KeyError", data)
    ELSE IF Len(data) = 3 \/ (Len(data) = 2 /\ axis[method] < 2)
         THEN IF ~CanParse(setting1) THEN Raise("ValueError", data)
              ELSE InPlaceAt(data, axis[method] + 1, LAMBDA x : x * Parse(setting1))
         ELSE Ok(Same(data))

\* a /= c on an array of whole numbers: the quotients are whole numbers again only when
\* c divides every element; any other quotient is a real number
Divides(c, a) ==
    /\ c # 0
    /\ \A k \in 1..Len(Elems(a)) : Elems(a)[k] % Abs(c) = 0

Quotient(x, c) == IF c > 0 THEN x \div c ELSE (0 - x) \div (0 - c)

divide_dependent_array(data, method, setting1, setting2) ==
    IF method \notin DOMAIN axis THEN Raise("KeyError", data)
    ELSE LET tgt == IF method = "Z" THEN Len(data) ELSE axis[method] + 1
         IN  IF ~CanParse(setting1) THEN Raise("ValueError", data)
             ELSE IF ~Divides(Parse(setting1), data[tgt]) THEN Raise("NotModelled", data)
             ELSE InPlaceAt(data, tgt, LAMBDA x : Quotient(x, Parse(setting1)))

divide(data, method, setting1, setting2) ==
    IF method \notin DOMAIN axis THEN Raise("KeyError", data)
    ELSE IF Len(data) = 3 \/ (Len(data) = 2 /\ axis[method] < 2)
         THEN IF ~CanParse(setting1) THEN Raise("ValueError", data)
              ELSE IF ~Divides(Parse(setting1), data[axis[method] + 1])
                   THEN Raise("NotModelled", data)
              ELSE InPlaceAt(data, axis[method] + 1, LAMBDA x : Quotient(x, Parse(setting1)))
         ELSE Ok(Same(data))

swap_xy_dependent_last(data, method, setting1, setting2) ==
    IF Len(data) = 2 THEN Ok(Same(data))
    ELSE Ok([i \in 1..Len(data) |->
               IF i = 1 THEN Keep(data, 2) ELSE IF i = 2 THEN Keep(data, 1) ELSE Keep(data, i)])

swap_xy(data, method, setting1, setting2) ==
    Ok([i \in 1..Len(data) |->
          IF i = 1 THEN Keep(data, 2) ELSE IF i = 2 THEN Keep(data, 1) ELSE Keep(data, i)])

\* np.flipud: reverse along axis 0;  np.fliplr: reverse along axis 1 (needs 2-d)
flipud(a) ==
    IF ndim(a) = 2 THEN [a EXCEPT !.v = Reverse(a.v)]
    ELSE [a EXCEPT !.v = Reverse(a.v), !.mask = Reverse(a.mask)]

fliplr(a) == [a EXCEPT !.v = [i \in 1..Len(a.v) |-> Reverse(a.v[i])]]

flip(data, method, setting1, setting2) ==
    LET z == data[Len(data)]
    IN  IF method = "Up Down"
        THEN IF ndim(z) < 2 THEN Raise("ValueError", data) ELSE Rebind(data, fliplr(z))
        ELSE IF method = "Left Right" THEN Rebind(data, flipud(z))
        ELSE Ok(Same(data))

\* np.roll(block, shift, axis) written back into the block's slice of data[2]
roll_x_no_pivot(data, method, position, amount) ==
    IF Len(data) # 3 THEN Ok(Same(data))
    ELSE IF ~CanParse(amount) \/ ~CanParse(position) THEN Raise("ValueError", data)
    ELSE LET z == data[3]
             nr == z.shape[1]
             nc == z.shape[2]
             from == 0
             rolled == [i \in 1..nr |-> [j \in 1..nc |->
                          IF j > from
                          THEN z.v[((i - 1 - Parse(amount)) % nr) + 1][j]
                          ELSE z.v[i][j]]]
         IN  Ok([i \in 1..3 |->
                   IF i = 3 THEN InPlace(3, [z EXCEPT !.v = rolled]) ELSE Keep(data, i)])

roll_x(data, method, position, amount) ==
    IF Len(data) # 3 THEN Ok(Same(data))
    ELSE IF ~CanParse(amount) \/ ~CanParse(position) THEN Raise("ValueError", data)
    ELSE LET z == data[3]
             nr == z.shape[1]
             nc == z.shape[2]
             from == PyIndex(Parse(position), nc)
             rolled == [i \in 1..nr |-> [j \in 1..nc |->
                          IF j > from
                          THEN z.v[((i - 1 - Parse(amount)) % nr) + 1][j]
                          ELSE z.v[i][j]]]
         IN  Ok([i \in 1..3 |->
                   IF i = 3 THEN InPlace(3, [z EXCEPT !.v = rolled]) ELSE Keep(data, i)])

roll_y(data, method, position, amount) ==
    IF Len(data) # 3 THEN Ok(Same(data))
    ELSE IF ~CanParse(amount) \/ ~CanParse(position) THEN Raise("ValueError", data)
    ELSE LET z == data[3]
             nr == z.shape[1]
             nc == z.shape[2]
             from == PyIndex(Parse(position), nr)
             rolled == [i \in 1..nr |-> [j \in 1..nc |->
                          IF i > from
                          THEN z.v[i][((j - 1 - Parse(amount)) % nc) + 1]
                          ELSE z.v[i][j]]]
         IN  Ok([i \in 1..3 |->
                   IF i = 3 THEN InPlace(3, [z EXCEPT !.v = rolled]) ELSE Keep(data, i)])

\* the three parts cut_x / cut_y slice out of an axis of length n
CutPartsSlabRemoved(s, left, width) ==
    PySlice(s, left + width, Len(s)) \o PySlice(s, 0, left)

CutParts(s, left, width) ==
    PySlice(s, 0, left) \o PySlice(s, left + width, Len(s)) \o PySlice(s, left, left + width)

cut_x(data, method, left, width) ==
    IF Len(data) # 3 THEN Ok(Same(data))
    ELSE IF ~CanParse(left) \/ ~CanParse(width) THEN Raise("ValueError", data)
    ELSE LET z == data[3]
             rows == CutParts(z.v, Parse(left), Parse(width))
         IN  Rebind(data, Arr2(rows, z.shape[2]))

cut_y(data, method, bottom, width) ==
    IF Len(data) # 3 THEN Ok(Same(data))
    ELSE IF ~CanParse(bottom) \/ ~CanParse(width) THEN Raise("ValueError", data)
    ELSE LET z == data[3]
             idx == CutParts([j \in 1..z.shape[2] |-> j], Parse(bottom), Parse(width))
             rows == [i \in 1..z.shape[1] |-> [j \in 1..Len(idx) |-> z.v[i][idx[j]]]]
         IN  Rebind(data, Arr2(rows, Len(idx)))

\* True where the coordinate x is cropped away
CropMaskedOpenInterval(method, x, lo, hi, left, right) ==
    IF method = "Absolute" THEN x <= left \/ x >= right
    ELSE (x >= lo /\ x <= lo + Abs(left)) \/ (x <= hi /\ x >= hi - Abs(right))

CropMasked(method, x, lo, hi, left, right) ==
    IF method = "Absolute" THEN x < left \/ x > right
    ELSE (x >= lo /\ x <= lo + Abs(left)) \/ (x <= hi /\ x >= hi - Abs(right))

\* np.ma.compress_rowcols(masked_array(a, mask), axis=0): rows with a masked entry go
\* (a mask that masks every entry makes compress_rowcols return the empty 1-D array)
AllMasked(m) == \A i \in 1..Len(m) : \A j \in 1..Len(m[i]) : m[i][j]

CompressRows(a, m) ==
    IF AllMasked(m) THEN Arr1(<<>>)
    ELSE Arr2(SelectIdx(a.v, [i \in 1..Len(a.v) |-> \A j \in 1..Len(m[i]) : ~m[i][j]]),
              a.shape[2])

\* np.ma.compress_rowcols(masked_array(a, mask), axis=1): columns with a masked entry go
CompressCols(a, m) ==
    LET idx == SelectIdx([j \in 1..a.shape[2] |-> j],
                         [j \in 1..a.shape[2] |-> \A i \in 1..Len(m) : ~m[i][j]])
    IN  IF AllMasked(m) THEN Arr1(<<>>)
        ELSE Arr2([i \in 1..a.shape[1] |-> [j \in 1..Len(idx) |-> a.v[i][idx[j]]]], Len(idx))

AnyMasked(m) == \E i \in 1..Len(m) : \E j \in 1..Len(m[i]) : m[i][j]

\* the loop "for i in order: data[i] = compress(masked_array(data[i], mask))": the
\* masked_array constructor raises when data[i] does not have the mask's shape, and the
\* arrays visited before that stay replaced
CropLoop(data, order, cropped) ==
    LET bad == {k \in 1..3 : data[order[k]].shape # data[order[3]].shape}
        stop == IF bad = {} THEN 4 ELSE CHOOSE k \in bad : \A k2 \in bad : k <= k2
        done == {order[k] : k \in 1..(stop - 1)}
    IN  [err |-> IF bad = {} THEN "" ELSE "MaskError",
         out |-> [i \in 1..3 |->
                    IF i \in done /\ cropped[i] # data[i] THEN New(cropped[i])
                    ELSE Keep(data, i)]]

\* the test crop_x and crop_y make before they crop:
\* left < right and max_data > left and min_data < right
CropAppliesUnordered(left, right, lo, hi) == hi > left /\ lo < right

CropApplies(left, right, lo, hi) == left < right /\ hi > left /\ lo < right

Mask2(c, method, lo, hi, left, right) ==
    [i \in 1..Len(c.v) |-> [j \in 1..Len(c.v[i]) |->
        CropMasked(method, c.v[i][j], lo, hi, left, right)]]

crop_x(data, method, left, right) ==
    LET c == data[1]
        es == Elems(c)
    IN  IF c.shape[1] = 0 \/ (ndim(c) = 2 /\ c.shape[2] = 0) THEN Raise("ValueError", data)
        ELSE IF ~CanParse(left) \/ ~CanParse(right) THEN Raise("ValueError", data)
        ELSE IF es = <<>> THEN Ok(Same(data))
        ELSE LET lo == SeqMin(es)
                 hi == SeqMax(es)
                 l == Parse(left)
                 r == Parse(right)
             IN  IF ~CropApplies(l, r, lo, hi) THEN Ok(Same(data))
                 ELSE IF method \notin {"Absolute", "Relative"}
                      THEN Raise("UnboundLocalError", data)
                 ELSE IF Len(data) = 3
                      THEN LET m == Mask2(c, method, lo, hi, l, r)
                           IN  IF AnyMasked(m)
                               THEN CropLoop(data, <<2, 3, 1>>, [i \in 1..3 |-> CompressRows(data[i], m)])
                               ELSE CropLoop(data, <<2, 3, 1>>, data)
                      ELSE Ok([i \in 1..Len(data) |->
                                 InPlace(i, [data[i] EXCEPT !.mask =
                                    [k \in 1..Len(data[i].v) |->
                                        data[i].mask[k]
                                        \/ CropMasked(method, c.v[k], lo, hi, l, r)]])])

crop_y(data, method, bottom, top) ==
    IF Len(data) # 3 THEN Ok(Same(data))
    ELSE LET c == data[2]
         IN  IF c.shape[1] = 0 \/ c.shape[2] = 0 THEN Raise("ValueError", data)
             ELSE IF ~CanParse(bottom) \/ ~CanParse(top) THEN Raise("ValueError", data)
             ELSE LET lo == SeqMin(Elems(c))
                      hi == SeqMax(Elems(c))
                      b == Parse(bottom)
                      t == Parse(top)
                  IN  IF ~CropApplies(b, t, lo, hi) THEN Ok(Same(data))
                      ELSE IF method \notin {"Absolute", "Relative"}
                           THEN Raise("UnboundLocalError", data)
                      ELSE LET m == Mask2(c, method, lo, hi, b, t)
                           IN  IF AnyMasked(m)
                               THEN CropLoop(data, <<1, 3, 2>>, [i \in 1..3 |-> CompressCols(data[i], m)])
                               ELSE CropLoop(data, <<1, 3, 2>>, data)

\* np.gradient(f, x) along one axis: one-sided differences at the two ends and central
\* differences between them, as <<numerator, denominator>>
GradientPairs(f, x) ==
    LET n == Len(f)
    IN  [k \in 1..n |->
           IF k = 1 THEN <<f[2] - f[1], x[2] - x[1]>>
           ELSE IF k = n THEN <<f[n] - f[n - 1], x[n] - x[n - 1]>>
           ELSE <<f[k + 1] - f[k - 1], x[k + 1] - x[k - 1]>>]

\* the differences are whole numbers: x is evenly spaced (np.gradient then takes the
\* plain central difference) and every denominator divides its numerator
GradientWhole(f, x) ==
    /\ \A k \in 2..(Len(x) - 1) : x[k + 1] - x[k] = x[k] - x[k - 1]
    /\ \A k \in 1..Len(f) :
         /\ GradientPairs(f, x)[k][2] # 0
         /\ GradientPairs(f, x)[k][1] % Abs(GradientPairs(f, x)[k][2]) = 0

GradientTrimmed(f, x) ==
    [k \in 1..(Len(f) - 2) |->
        Quotient(GradientPairs(f, x)[k + 1][1], GradientPairs(f, x)[k + 1][2])]

Gradient(f, x) ==
    [k \in 1..Len(f) |-> Quotient(GradientPairs(f, x)[k][1], GradientPairs(f, x)[k][2])]

Column(a, j) == [i \in 1..a.shape[1] |-> a.v[i][j]]

Transpose(rows, nc) == [j \in 1..nc |-> [i \in 1..Len(rows) |-> rows[i][j]]]

\* the lines of z along the axis: z itself, its columns (axis 0) or its rows (axis 1)
LinesAlong(z, ax) ==
    IF ndim(z) = 1 THEN <<z.v>>
    ELSE IF ax = 0 THEN Transpose(z.v, z.shape[2]) ELSE z.v

\* the array made of the lines again
FromLines(z, ax, lines) ==
    IF ndim(z) = 1 THEN Arr1(lines[1])
    ELSE IF ax = 0 THEN Arr2(Transpose(lines, Len(lines[1])), z.shape[2])
    ELSE Arr2(lines, Len(lines[1]))

\* np.gradient(z, x, axis): [err, a]; it needs two samples along the axis
gradient(z, x, ax) ==
    IF z.shape[IF ndim(z) = 1 THEN 1 ELSE ax + 1] < 2 THEN [err |-> "ValueError", a |-> z]
    ELSE IF \E l \in 1..Len(LinesAlong(z, ax)) : ~GradientWhole(LinesAlong(z, ax)[l], x)
    THEN [err |-> "NotModelled", a |-> z]
    ELSE [err |-> "",
          a |-> FromLines(z, ax, [l \in 1..Len(LinesAlong(z, ax)) |->
                                     Gradient(LinesAlong(z, ax)[l], x)])]

\* data[-1] after one more "data[-1] = np.gradient(...)": g = [err, a, n] is the array
\* now at data[-1] and how often it has been rebound, r the outcome of np.gradient
Regraded(g, r) == [err |-> r.err, a |-> r.a, n |-> IF r.err = "" THEN g.n + 1 ELSE g.n]

\* the for loops of derivative: plan lists the axes in the order they are taken, xs
\* the coordinates along axis 0 and axis 1
RECURSIVE GradientLoop(_, _, _)
GradientLoop(g, xs, plan) ==
    IF plan = <<>> \/ g.err # "" THEN g
    ELSE GradientLoop(Regraded(g, gradient(g.a, xs[plan[1] + 1], plan[1])), xs, Tail(plan))

Repeat(x, n) == [k \in 1..n |-> x]

\* the list as derivative leaves it
Derived(data, g) ==
    [err |-> g.err,
     out |-> [i \in 1..Len(data) |->
                IF i = Len(data) /\ g.n > 0 THEN New(g.a) ELSE Keep(data, i)]]

derivative(data, method, times_x, times_y) ==
    IF ~CanParse(times_x) \/ ~CanParse(times_y) THEN Raise("ValueError", data)
    ELSE IF Len(data) = 3
    THEN Derived(data, GradientLoop([err |-> "", a |-> data[3], n |-> 0],
                                    <<Column(data[1], 1), data[2].v[1]>>,
                                    Repeat(0, Parse(times_x)) \o Repeat(1, Parse(times_y))))
    ELSE IF Len(data) = 2
    THEN Derived(data, GradientLoop([err |-> "", a |-> data[2], n |-> 0],
                                    <<data[1].v, <<>>>>, Repeat(0, Parse(times_y))))
    ELSE Ok(Same(data))

\* the window length sav_gol hands to scipy.signal.savgol_filter
SavGolWindow(window_length, polyorder) ==
    LET w == IF window_length < polyorder THEN polyorder + 1 ELSE window_length
    IN  IF w % 2 = 0 THEN w + 1 ELSE w

SavGolMethods == {"Y deriv 0", "Y deriv 1", "Y deriv 2", "X deriv 0", "X deriv 1", "X deriv 2"}

\* the length of data[-1] along the axis the method names
SavGolSize(data, method) ==
    LET z == data[Len(data)]
    IN  IF ndim(z) = 1 THEN z.shape[1]
        ELSE IF method \in {"Y deriv 0", "Y deriv 1", "Y deriv 2"} THEN z.shape[2]
        ELSE z.shape[1]

\* savgol_filter raises when polyorder >= window_length or the window exceeds the
\* axis; the fit itself is real-valued and not modelled
sav_gol(data, method, window_length, polyorder) ==
    IF ~CanParse(polyorder) \/ ~CanParse(window_length) THEN Raise("ValueError", data)
    ELSE IF method \notin SavGolMethods THEN Raise("ValueError", data)
    ELSE LET w == SavGolWindow(Parse(window_length), Parse(polyorder))
         IN  IF Parse(polyorder) >= w \/ w > SavGolSize(data, method)
             THEN Raise("ValueError", data)
             ELSE Raise("NotModelled", data)

\* np.linspace(lo, hi, n), rounded down to the integer grid of the model
linspace(lo, hi, n) ==
    [k \in 1..n |-> IF n = 1 THEN lo ELSE lo + ((k - 1) * (hi - lo)) \div (n - 1)]

\* piecewise-linear interpolation of the samples (xs[k], ys[k]) at x, xs increasing
Lerp(xs, ys, x) ==
    IF x >= xs[Len(xs)] THEN ys[Len(xs)]
    ELSE LET k == CHOOSE k \in 1..(Len(xs) - 1) : xs[k] <= x /\ x < xs[k + 1]
         IN  ys[k] + ((x - xs[k]) * (ys[k + 1] - ys[k])) \div (xs[k + 1] - xs[k])

Increasing(xs) == \A k \in 1..(Len(xs) - 1) : xs[k] < xs[k + 1]

\* interp2d / interp1d with kind 'linear'; interp2d returns a 1-d array when it is
\* evaluated at a single row
interpolate(data, method, n_x, n_y) ==
    IF Len(data) = 3
    THEN LET z == data[3]
         IN  IF data[1].shape[1] = 0 \/ data[1].shape[2] = 0 THEN Raise("IndexError", data)
             ELSE LET x == [i \in 1..data[1].shape[1] |-> data[1].v[i][1]]
                      y == data[2].v[1]
                  IN  IF Len(x) * Len(y) # z.shape[1] * z.shape[2] \/ Len(x) < 2 \/ Len(y) < 2
                      THEN Raise("ValueError", data)
                      ELSE IF ~CanParse(n_x) \/ ~CanParse(n_y) THEN Raise("ValueError", data)
                      ELSE IF Parse(n_x) < 0 \/ Parse(n_y) < 0 THEN Raise("ValueError", data)
                      ELSE IF method # "linear" \/ ~Increasing(x) \/ ~Increasing(y)
                              \/ z.shape # <<Len(x), Len(y)>>
                           THEN Raise("NotModelled", data)
                      ELSE LET nx == Parse(n_x)
                               ny == Parse(n_y)
                               xp == linspace(SeqMin(Elems(data[1])), SeqMax(Elems(data[1])), nx)
                               yp == linspace(SeqMin(Elems(data[2])), SeqMax(Elems(data[2])), ny)
                               zy == [i \in 1..Len(x) |-> [j \in 1..ny |-> Lerp(y, z.v[i], yp[j])]]
                               zz == [i \in 1..nx |-> [j \in 1..ny |->
                                        Lerp(x, [k \in 1..Len(x) |-> zy[k][j]], xp[i])]]
                           IN  Ok(<<New(Arr2([i \in 1..nx |-> [j \in 1..ny |-> xp[i]]], ny)),
                                    New(Arr2([i \in 1..nx |-> [j \in 1..ny |-> yp[j]]], ny)),
                                    New(IF nx = 1 THEN Arr1(zz[1]) ELSE Arr2(zz, ny))>>)
    ELSE LET x == data[1].v
             y == data[2].v
         IN  IF Len(x) # Len(y) \/ Len(x) < 2 THEN Raise("ValueError", data)
             ELSE IF ~CanParse(n_x) THEN Raise("ValueError", data)
             ELSE IF Parse(n_x) < 0 THEN Raise("ValueError", data)
             ELSE IF method # "linear" \/ ~Increasing(x) THEN Raise("NotModelled", data)
             ELSE LET xp == linspace(SeqMin(x), SeqMax(x), Parse(n_x))
                  IN  Ok(<<New(Arr1(xp)),
                           New(Arr1([k \in 1..Len(xp) |-> Lerp(x, y, xp[k])]))>>)

----------------------------------------------------------------------------
(* filters.py: the registry                                                *)

filter_functions_no_divide ==
    {"Derivative", "Smoothen", "Sav-Gol", "Crop X", "Crop Y", "Roll X", "Roll Y",
     "Cut X", "Cut Y", "Swap XY", "Flip", "Normalize", "Offset", "Absolute",
     "Multiply", "Slope", "Logarithm", "Band cut", "Interp", "Subtract"}

filter_functions ==
    {"Derivative", "Smoothen", "Sav-Gol", "Crop X", "Crop Y", "Roll X", "Roll Y",
     "Cut X", "Cut Y", "Swap XY", "Flip", "Normalize", "Offset", "Absolute",
     "Multiply", "Slope", "Logarithm", "Band cut", "Interp", "Subtract", "Divide"}

filter_methods ==
    ("Derivative" :> <<"Midpoint">>) @@
    ("Smoothen" :> <<"Gaussian", "Median">>) @@
    ("Sav-Gol" :> <<"Y deriv 0", "Y deriv 1", "Y deriv 2",
                    "X deriv 0", "X deriv 1", "X deriv 2">>) @@
    ("Crop X" :> <<"Absolute", "Relative">>) @@
    ("Crop Y" :> <<"Absolute", "Relative">>) @@
    ("Roll X" :> <<"Index">>) @@ ("Roll Y" :> <<"Index">>) @@
    ("Cut X" :> <<"Index">>) @@ ("Cut Y" :> <<"Index">>) @@
    ("Swap XY" :> <<>>) @@ ("Flip" :> <<"Left Right", "Up Down">>) @@
    ("Normalize" :> <<"Minimum", "Maximum", "Point">>) @@
    ("Offset" :> <<"X", "Y", "Z">>) @@ ("Absolute" :> <<>>) @@
    ("Multiply" :> <<"X", "Y", "Z">>) @@ ("Slope" :> <<>>) @@
    ("Logarithm" :> <<"Mask", "Shift", "Abs">>) @@
    ("Band cut" :> <<"Y", "X">>) @@
    ("Interp" :> <<"linear", "cubic", "quintic">>) @@
    ("Subtract" :> <<"Vertical", "Horizontal">>) @@
    ("Divide" :> <<"X", "Y", "Z">>)

\* the keys of filter_methods in the order they are written
filter_names ==
    <<"Derivative", "Smoothen", "Sav-Gol", "Crop X", "Crop Y", "Roll X", "Roll Y",
      "Cut X", "Cut Y", "Swap XY", "Flip", "Normalize", "Offset", "Absolute",
      "Multiply", "Slope", "Logarithm", "Band cut", "Interp", "Subtract", "Divide">>

get_list_any_name(filter_name) ==
    IF filter_name \in DOMAIN filter_methods
    THEN [err |-> "", list |-> filter_methods[filter_name]]
    ELSE [err |-> "", list |-> <<>>]

\* get_list(filter_name=''): the methods of a name, or every name for ''
get_list(filter_name) ==
    IF filter_name # ""
    THEN IF filter_name \in DOMAIN filter_methods
         THEN [err |-> "", list |-> filter_methods[filter_name]]
         ELSE [err |-> "KeyError", list |-> <<>>]
    ELSE [err |-> "", list |-> filter_names]

Filter(name, method, s1, s2, checked) ==
    [Name |-> name, Method |-> method, Setting1 |-> s1, Setting2 |-> s2, Checked |-> checked]

\* the transform registered under a name, called on the arrays
Dispatch(data, fs) ==
    CASE fs.Name = "Derivative" -> derivative(data, fs.Method, fs.Setting1, fs.Setting2)
      [] fs.Name = "Sav-Gol"  -> sav_gol(data, fs.Method, fs.Setting1, fs.Setting2)
      [] fs.Name = "Crop X"   -> crop_x(data, fs.Method, fs.Setting1, fs.Setting2)
      [] fs.Name = "Crop Y"   -> crop_y(data, fs.Method, fs.Setting1, fs.Setting2)
      [] fs.Name = "Roll X"   -> roll_x(data, fs.Method, fs.Setting1, fs.Setting2)
      [] fs.Name = "Roll Y"   -> roll_y(data, fs.Method, fs.Setting1, fs.Setting2)
      [] fs.Name = "Cut X"    -> cut_x(data, fs.Method, fs.Setting1, fs.Setting2)
      [] fs.Name = "Cut Y"    -> cut_y(data, fs.Method, fs.Setting1, fs.Setting2)
      [] fs.Name = "Swap XY"  -> swap_xy(data, fs.Method, fs.Setting1, fs.Setting2)
      [] fs.Name = "Flip"     -> flip(data, fs.Method, fs.Setting1, fs.Setting2)
      [] fs.Name = "Offset"   -> offset(data, fs.Method, fs.Setting1, fs.Setting2)
      [] fs.Name = "Absolute" -> absolute(data, fs.Method, fs.Setting1, fs.Setting2)
      [] fs.Name = "Multiply" -> mulitply(data, fs.Method, fs.Setting1, fs.Setting2)
      [] fs.Name = "Divide"   -> divide(data, fs.Method, fs.Setting1, fs.Setting2)
      [] fs.Name = "Interp"   -> interpolate(data, fs.Method, fs.Setting1, fs.Setting2)
      [] OTHER                -> Raise("NotModelled", data)

\* apply(data, filter_settings): filter_functions[Name](data, Method, Setting 1, Setting 2)
apply(data, filter_settings) ==
    IF filter_settings.Name \notin filter_functions THEN Raise("KeyError", data)
    ELSE Dispatch(data, filter_settings)

----------------------------------------------------------------------------
(* main.py, class Data: raw data, processed data and the pipeline.  A      *)
(* processed_data entry is [ref, a]: ref = 0 when the array owns its       *)
(* buffer (contents a), ref = j when it is the very array raw_data[j].     *)

Own(a) == [ref |-> 0, a |-> a]

\* the contents of the arrays of processed_data
Values(raw, pd) == [i \in 1..Len(pd) |-> IF pd[i].ref = 0 THEN pd[i].a ELSE raw[pd[i].ref]]

\* the transform's outcome written back: rebinding list entries, and writing the
\* buffers changed in place
Commit(raw, pd, res) ==
    [raw |-> [j \in 1..Len(raw) |->
               IF \E i \in 1..Len(pd) : res.out[i].buf # 0 /\ pd[res.out[i].buf].ref = j
               THEN LET i == CHOOSE i \in 1..Len(pd) :
                                 res.out[i].buf # 0 /\ pd[res.out[i].buf].ref = j
                    IN  res.out[i].a
               ELSE raw[j]],
     pd |-> [i \in 1..Len(pd) |->
               IF res.out[i].buf = 0 THEN Own(res.out[i].a)
               ELSE [ref |-> pd[res.out[i].buf].ref, a |-> res.out[i].a]],
     err |-> res.err]

processed_to_raw_no_copy(raw) == [i \in 1..Len(raw) |-> [ref |-> i, a |-> raw[i]]]

\* processed_to_raw: [np.copy(self.raw_data[i]) for i in self.columns]
processed_to_raw(raw) == [i \in 1..Len(raw) |-> Own(NpCopy(raw[i]))]

\* one filter of the list applied to the working state w = [raw, pd, err, at]
ApplyOne(w, fs, k) ==
    LET c == Commit(w.raw, w.pd, apply(Values(w.raw, w.pd), fs))
    IN  [raw |-> c.raw, pd |-> c.pd, err |-> c.err, at |-> IF c.err = "" THEN 0 ELSE k]

\* the loop of apply_all_filters from list index k on; an exception ends it
RECURSIVE FilterLoop(_, _, _)
FilterLoop(w, fl, k) ==
    IF k > Len(fl) \/ w.err # "" THEN w
    ELSE IF fl[k].Checked # 0 THEN FilterLoop(ApplyOne(w, fl[k], k), fl, k + 1)
    ELSE FilterLoop(w, fl, k + 1)

apply_all_filters_reversed(raw, fl) ==
    FilterLoop([raw |-> raw, pd |-> processed_to_raw(raw), err |-> "", at |-> 0],
               Reverse(fl), 1)

apply_all_filters_ignore_checked(raw, fl) ==
    FilterLoop([raw |-> raw, pd |-> processed_to_raw(raw), err |-> "", at |-> 0],
               [k \in 1..Len(fl) |-> [fl[k] EXCEPT !.Checked = 2]], 1)

\* Data.apply_all_filters: [raw, pd, err, at] after the run
apply_all_filters(raw, fl) ==
    FilterLoop([raw |-> raw, pd |-> processed_to_raw(raw), err |-> "", at |-> 0], fl, 1)

\* Data.apply_filter after the append: the new filter applied to processed_data
apply_filter(raw, pd, fs) ==
    IF fs.Checked # 0
    THEN ApplyOne([raw |-> raw, pd |-> pd, err |-> "", at |-> 0], fs, 0)
    ELSE [raw |-> raw, pd |-> pd, err |-> "", at |-> 0]

----------------------------------------------------------------------------
(* main.py, class Editor: the handlers that change a dataset's filter list. *)
(* The dataset is the current item of the file list and is checked.  Its   *)
(* dependent array is never empty here, so reset_view_settings and the     *)
(* plot calls that end the handlers return and are left out.               *)

default_filter_settings ==
    ("Derivative" :> Filter("Derivative", "Midpoint", "0", "1", 2)) @@
    ("Smoothen" :> Filter("Smoothen", "Gaussian", "0", "2", 2)) @@
    ("Sav-Gol" :> Filter("Sav-Gol", "Y deriv 1", "7", "2", 2)) @@
    ("Crop X" :> Filter("Crop X", "Absolute", "-1", "1", 0)) @@
    ("Crop Y" :> Filter("Crop Y", "Absolute", "-10", "10", 0)) @@
    ("Roll X" :> Filter("Roll X", "Index", "0", "0", 0)) @@
    ("Roll Y" :> Filter("Roll Y", "Index", "0", "0", 0)) @@
    ("Cut X" :> Filter("Cut X", "Index", "0", "0", 0)) @@
    ("Cut Y" :> Filter("Cut Y", "Index", "0", "0", 0)) @@
    ("Swap XY" :> Filter("Swap XY", "", "", "", 2)) @@
    ("Flip" :> Filter("Flip", "Left Right", "", "", 2)) @@
    ("Normalize" :> Filter("Normalize", "Maximum", "0", "0", 2)) @@
    ("Offset" :> Filter("Offset", "X", "0", "", 2)) @@
    ("Absolute" :> Filter("Absolute", "", "", "", 2)) @@
    ("Multiply" :> Filter("Multiply", "Z", "1", "", 2)) @@
    ("Slope" :> Filter("Slope", "", "0", "-1", 0)) @@
    ("Logarithm" :> Filter("Logarithm", "Mask", "", "", 2)) @@
    ("Band cut" :> Filter("Band cut", "Y", "20", "25", 0)) @@
    ("Interp" :> Filter("Interp", "linear", "800", "600", 0)) @@
    ("Subtract" :> Filter("Subtract", "Vertical", "0", "", 0)) @@
    ("Divide" :> Filter("Divide", "Z", "1", "", 2)) @@
    ("Invert" :> Filter("Invert", "Z", "", "", 2))

\* the row append_filter_to_table builds for a filter instance
TableRow(settings) ==
    LET method_list == get_list(settings.Name).list
    IN  [Name |-> settings.Name,
         Method |-> IF \E i \in 1..Len(method_list) : method_list[i] = settings.Method
                    THEN settings.Method
                    ELSE IF method_list = <<>> THEN "" ELSE method_list[1],
         Setting1 |-> settings.Setting1,
         Setting2 |-> settings.Setting2,
         Checked |-> IF settings.Checked # 0 THEN 2 ELSE 0,
         methods |-> method_list]

\* append_filter_to_table: the row for filters[table.rowCount()] goes last
append_filter_to_table(tbl, fl) == Append(tbl, TableRow(fl[Len(tbl) + 1]))

\* show_current_filters: the table is emptied and rebuilt from the list
show_current_filters(fl) == [i \in 1..Len(fl) |-> TableRow(fl[i])]

\* the filter instance filters_table_edited reads back from a table row
FromRow(row) == Filter(row.Name, row.Method, row.Setting1, row.Setting2, row.Checked)

\* what a handler leaves behind: s = [raw, pd, fl, type, old, tbl, err]
Outcome(raw, pd, fl, type, old, tbl, err) ==
    [raw |-> raw, pd |-> pd, fl |-> fl, type |-> type, old |-> old, tbl |-> tbl, err |-> err]

\* paste_filters(which='old') as called from the except branch
paste_filters_old(raw, old) ==
    LET run == apply_all_filters(raw, old.items)
    IN  Outcome(run.raw, run.pd, old.items, old.type, old,
                show_current_filters(old.items), run.err)

\* the try block of filters_table_edited raises: no such list entry, or the run fails
EditRaises(raw, fl, tbl, row) ==
    \/ row > Len(fl)
    \/ apply_all_filters(raw, [fl EXCEPT ![row] = FromRow(tbl[row])]).err # ""

filters_table_edited_no_deepcopy(raw, pd, fl, type, tbl, row, col) ==
    IF row > Len(fl) THEN paste_filters_old(raw, [type |-> type, items |-> fl])
    ELSE LET fl1 == [fl EXCEPT ![row] = FromRow(tbl[row])]
             old == [type |-> type, items |-> fl1]
             run == apply_all_filters(raw, fl1)
         IN  IF run.err # "" THEN paste_filters_old(run.raw, old)
             ELSE Outcome(run.raw, run.pd, fl1, type, old,
                          IF tbl[row].Checked # 0 \/ col = 0
                          THEN show_current_filters(fl1) ELSE tbl,
                          "")

\* filters_table_edited(item): row and col of the item, tbl the table as edited
filters_table_edited(raw, pd, fl, type, tbl, row, col) ==
    LET old == [type |-> type, items |-> fl]
    IN  IF row > Len(fl) THEN paste_filters_old(raw, old)
        ELSE LET fl1 == [fl EXCEPT ![row] = FromRow(tbl[row])]
                 run == apply_all_filters(raw, fl1)
             IN  IF run.err # "" THEN paste_filters_old(run.raw, old)
                 ELSE Outcome(run.raw, run.pd, fl1, type, old,
                              IF tbl[row].Checked # 0 \/ col = 0
                              THEN show_current_filters(fl1) ELSE tbl,
                              "")

\* filters_box_changed: a filter with the registry defaults is appended and applied
filters_box_changed(raw, pd, fl, type, old, tbl, filter_name) ==
    LET new_filter == default_filter_settings[filter_name]
    IN  IF type # "list" THEN Outcome(raw, pd, fl, type, old, tbl, "AttributeError")
        ELSE LET fl1 == Append(fl, new_filter)
                 res == apply_filter(raw, pd, new_filter)
             IN  IF res.err # "" THEN Outcome(res.raw, res.pd, fl1, type, old, tbl, res.err)
                 ELSE Outcome(res.raw, res.pd, fl1, type, old,
                              append_filter_to_table(tbl, fl1), "")

RemoveAt(s, i) == SubSeq(s, 1, i - 1) \o SubSeq(s, i + 1, Len(s))

\* remove_filters('current') with the table's current row
remove_filters_current(raw, pd, fl, type, old, tbl, row) ==
    LET tbl1 == RemoveAt(tbl, row)
    IN  IF type # "list" THEN Outcome(raw, pd, fl, type, old, tbl1, "ValueError")
        ELSE IF row > Len(fl) THEN Outcome(raw, pd, fl, type, old, tbl1, "IndexError")
        ELSE LET run == apply_all_filters(raw, RemoveAt(fl, row))
             IN  Outcome(run.raw, run.pd, RemoveAt(fl, row), type, old, tbl1, run.err)

\* remove_filters('all')
remove_filters_all(raw, pd, fl, type, old, tbl) ==
    LET run == apply_all_filters(raw, <<>>)
    IN  Outcome(run.raw, run.pd, <<>>, "list", old, <<>>, run.err)

Swap(s, i, j) == [s EXCEPT ![i] = s[j], ![j] = s[i]]

\* move_filter(to) with the table's current row (counted from 1 here)
move_filter(raw, pd, fl, type, old, tbl, row, to) ==
    IF ~((row > 1 /\ to = -1) \/ (row < Len(tbl) /\ to = 1))
    THEN Outcome(raw, pd, fl, type, old, tbl, "")
    ELSE IF row > Len(fl) \/ row + to > Len(fl)
         THEN Outcome(raw, pd, fl, type, old, tbl, "IndexError")
    ELSE LET fl1 == Swap(fl, row, row + to)
             tbl1 == show_current_filters(fl1)
         IN  IF tbl1[row].Checked # 0 /\ tbl1[row + to].Checked # 0
             THEN LET run == apply_all_filters(raw, fl1)
                  IN  Outcome(run.raw, run.pd, fl1, type, old, tbl1, run.err)
             ELSE Outcome(raw, pd, fl1, type, old, tbl1, "")

\* "if self.copied_filters:" -- None, a list, or a numpy array
Truth(c) ==
    IF ~c.set THEN [err |-> "", v |-> FALSE]
    ELSE IF c.type = "list" \/ Len(c.items) < 2 THEN [err |-> "", v |-> c.items # <<>>]
    ELSE [err |-> "ValueError", v |-> FALSE]

\* paste_filters(which='copied')
paste_filters_copied(raw, pd, fl, type, old, tbl, copied) ==
    IF Truth(copied).err # "" THEN Outcome(raw, pd, fl, type, old, tbl, Truth(copied).err)
    ELSE LET fl1 == IF Truth(copied).v THEN copied.items ELSE fl
             type1 == IF Truth(copied).v THEN copied.type ELSE type
             run == apply_all_filters(raw, fl1)
         IN  Outcome(run.raw, run.pd, fl1, type1, old, show_current_filters(fl1), run.err)

\* load_filters: np.load returns an array of the saved records
load_filters(raw, pd, fl, type, old, tbl, loaded_filters) ==
    LET run == apply_all_filters(raw, loaded_filters)
    IN  Outcome(run.raw, run.pd, loaded_filters, "ndarray", old,
                show_current_filters(loaded_filters), run.err)

----------------------------------------------------------------------------
(* The editor as a state machine: one dataset, the user's operations on    *)
(* its filter list.                                                        *)

MaxFilters == 2

MaxSteps == 3

MaxAdds == 3

\* a 2 x 2 map (X along axis 0, Y along axis 1) and a 2-point trace
Raw3 ==
    <<Arr2(<<<<0, 0>>, <<1, 1>>>>, 2), Arr2(<<<<0, 1>>, <<0, 1>>>>, 2),
      Arr2(<<<<1, 2>>, <<3, 4>>>>, 2)>>

Raw2 == <<Arr1(<<0, 1>>), Arr1(<<1, 2>>)>>

RawChoices == {Raw3, Raw2}

\* the names the user picks in the combo box, the strings typed into a cell
AddChoices == {"Offset", "Multiply", "Swap XY", "Sav-Gol", "Flip"}

EditStrings == {"2", "abc"}

\* the filter files on disk
LoadChoices ==
    {<<>>, <<Filter("Offset", "Z", "1", "", 2)>>,
     <<Filter("Multiply", "Y", "2", "", 2), Filter("Flip", "Up Down", "", "", 2)>>}

NoFilters == [type |-> "list", items |-> <<>>]

Init ==
    /\ raw_data \in RawChoices
    /\ loaded_data = raw_data
    /\ meta_data = FALSE
    /\ heap = <<>>
    /\ processed_data = apply_all_filters(raw_data, <<>>).pd
    /\ filters = <<>>
    /\ filters_type = "list"
    /\ oldFilters = NoFilters
    /\ copied_filters = [set |-> FALSE, type |-> "list", items |-> <<>>]
    /\ table = <<>>
    /\ error = ""
    /\ last = "init"
    /\ steps = 0
    /\ targs = <<>>
    /\ tres = <<>>

\* the handler's outcome becomes the state
Becomes(o, op) ==
    /\ raw_data' = o.raw
    /\ processed_data' = o.pd
    /\ filters' = o.fl
    /\ filters_type' = o.type
    /\ oldFilters' = o.old
    /\ table' = o.tbl
    /\ error' = o.err
    /\ last' = op
    /\ UNCHANGED <<loaded_data, meta_data, heap, copied_filters, targs, tres>>

Tick == steps < MaxSteps /\ steps' = steps + 1

AddFilter ==
    \E name \in AddChoices :
        /\ Len(filters) < MaxFilters
        /\ Becomes(filters_box_changed(raw_data, processed_data, filters, filters_type,
                                       oldFilters, table, name), "add")

\* the user changes one cell of a row; the table calls filters_table_edited
CellEdits(row) ==
    {<<[row EXCEPT !.Checked = 2 - row.Checked], 0>>}
    \cup {<<[row EXCEPT !.Method = row.methods[i]], 2>> :
             i \in {k \in 1..Len(row.methods) : row.methods[k] # row.Method}}
    \cup {<<[row EXCEPT !.Setting1 = str], 2>> : str \in EditStrings \ {row.Setting1}}

EditFilter ==
    \E row \in 1..Len(table) : \E e \in CellEdits(table[row]) :
        LET tbl == [table EXCEPT ![row] = e[1]]
        IN  Becomes(filters_table_edited(raw_data, processed_data, filters, filters_type,
                                         tbl, row, e[2]),
                    IF EditRaises(raw_data, filters, tbl, row) THEN "revert" ELSE "edit")

RemoveFilter ==
    \E row \in 1..Len(table) :
        Becomes(remove_filters_current(raw_data, processed_data, filters, filters_type,
                                       oldFilters, table, row), "remove")

ClearFilters ==
    Becomes(remove_filters_all(raw_data, processed_data, filters, filters_type,
                               oldFilters, table), "clear")

MoveFilter ==
    \E row \in 1..Len(table) : \E to \in {-1, 1} :
        Becomes(move_filter(raw_data, processed_data, filters, filters_type,
                            oldFilters, table, row, to), "move")

\* copy_filters
CopyFilters ==
    /\ copied_filters' = [set |-> TRUE, type |-> filters_type, items |-> filters]
    /\ error' = ""
    /\ last' = "copy"
    /\ UNCHANGED <<raw_data, loaded_data, meta_data, heap, processed_data, filters,
                   filters_type, oldFilters, table, targs, tres>>

PasteFilters ==
    Becomes(paste_filters_copied(raw_data, processed_data, filters, filters_type,
                                 oldFilters, table, copied_filters), "paste")

LoadFilters ==
    \E loaded_filters \in LoadChoices :
        /\ Len(loaded_filters) <= MaxFilters
        /\ Becomes(load_filters(raw_data, processed_data, filters, filters_type,
                                oldFilters, table, loaded_filters), "load")

Next ==
    \/ AddFilter /\ Tick
    \/ EditFilter /\ Tick
    \/ RemoveFilter /\ Tick
    \/ ClearFilters /\ Tick
    \/ MoveFilter /\ Tick
    \/ CopyFilters /\ Tick
    \/ PasteFilters /\ Tick
    \/ LoadFilters /\ Tick

Spec == Init /\ [][Next]_vars

\* the user only adds filters, one at a time, to the empty list
AddOnly ==
    \E name \in AddChoices :
        /\ Len(filters) < MaxAdds
        /\ Becomes(filters_box_changed(raw_data, processed_data, filters, filters_type,
                                       oldFilters, table, name), "add")
        /\ UNCHANGED steps

NextAdd == AddOnly

SpecAdd == Init /\ [][NextAdd]_vars

----------------------------------------------------------------------------
(* The pipeline called directly: one call of apply_all_filters on a fresh   *)
(* Data object, of filters.apply, or of filters.get_list, on arguments     *)
(* drawn from bounded sets.                                                *)

MaxDim == 3

MaxLen == 6

MaxRunLen == 2

\* an nr x nc map on a regular grid, and an n-point trace
Grid(nr, nc) ==
    <<Arr2([i \in 1..nr |-> [j \in 1..nc |-> i - 1]], nc),
      Arr2([i \in 1..nr |-> [j \in 1..nc |-> j - 1]], nc),
      Arr2([i \in 1..nr |-> [j \in 1..nc |-> 10 * i + j]], nc)>>

Trace(n) == <<Arr1([k \in 1..n |-> k - 1]), Arr1([k \in 1..n |-> 10 * (k - 1)])>>

Tuples == {Grid(nr, nc) : nr \in 1..MaxDim, nc \in 1..MaxDim} \cup {Trace(n) : n \in 1..MaxLen}

SettingStrings == {"-2", "-1", "0", "1", "2", "3", "abc"}

\* the filter instances handed to filters.apply; 'Invert' and '' are not registered
ShapeFilters ==
    {Filter(name, method, s1, s2, 2) :
        name \in {"Crop X", "Crop Y"}, method \in {"Absolute", "Relative"},
        s1 \in SettingStrings, s2 \in SettingStrings}
    \cup {Filter(name, "Index", s1, s2, 2) :
            name \in {"Cut X", "Cut Y"}, s1 \in SettingStrings, s2 \in SettingStrings}
    \cup {Filter("Interp", "linear", s1, s2, 2) :
            s1 \in SettingStrings, s2 \in SettingStrings}

UnknownFilters == {Filter("Invert", "Z", "", "", 2), Filter("", "", "", "", 2)}

\* the instances of the transforms that keep the shapes
ValueFilters ==
    {Filter(name, method, s1, "", 2) :
        name \in {"Offset", "Multiply", "Divide"}, method \in {"X", "Y", "Z"},
        s1 \in SettingStrings}
    \cup {Filter("Multiply", method, "e^2/h", "", 2) : method \in {"X", "Y", "Z"}}
    \cup {Filter("Swap XY", "", "", "", 2)}
    \cup {Filter("Flip", method, "", "", 2) : method \in {"Left Right", "Up Down"}}

\* Roll X / Roll Y with a pivot position and a signed amount
RollFilters ==
    {Filter(name, "Index", s1, s2, 2) :
        name \in {"Roll X", "Roll Y"}, s1 \in SettingStrings, s2 \in SettingStrings}

\* Derivative with times_x (Setting 1) and times_y (Setting 2)
DerivativeFilters ==
    {Filter("Derivative", "Midpoint", s1, s2, 2) :
        s1 \in SettingStrings, s2 \in SettingStrings}

\* Sav-Gol with a window length (Setting 1) and a polynomial order (Setting 2)
SavGolFilters ==
    {Filter("Sav-Gol", method, s1, s2, 2) :
        method \in {"Y deriv 0", "X deriv 1"}, s1 \in SettingStrings, s2 \in SettingStrings}

\* the 3-array tuples a Swap XY earlier in the pipeline produces
SwappedTuples ==
    {[i \in 1..3 |-> swap_xy(Grid(nr, nc), "", "", "").out[i].a] :
        nr \in 1..MaxDim, nc \in 1..MaxDim}

ApplyCalls ==
    {[call |-> "apply", data |-> t, fs |-> f] :
        t \in Tuples,
        f \in ShapeFilters \cup ValueFilters \cup RollFilters \cup SavGolFilters
                \cup DerivativeFilters
                \cup UnknownFilters}
    \cup {[call |-> "apply", data |-> t, fs |-> Filter("Crop X", "Absolute", s1, s2, 2)] :
            t \in SwappedTuples, s1 \in SettingStrings, s2 \in SettingStrings}

\* the filter lists handed to apply_all_filters
RunFilters ==
    {Filter("Offset", m, s, "", c) : m \in {"X", "Z"}, s \in {"1", "3", "abc"}, c \in {0, 2}}
    \cup {Filter("Multiply", "Z", s, "", c) : s \in {"2", "-1"}, c \in {0, 2}}
    \cup {Filter("Swap XY", "", "", "", 2)}
    \cup UnknownFilters

RunLists == UNION {[1..n -> RunFilters] : n \in 0..MaxRunLen}

RunCalls == {[call |-> "run", raw |-> r, fl |-> l] : r \in RawChoices, l \in RunLists}

LookupNames == {filter_names[i] : i \in 1..Len(filter_names)} \cup {"Invert", "", "Curvature"}

LookupCalls == {[call |-> "get_list", name |-> n] : n \in LookupNames}

InitCall ==
    /\ targs \in RunCalls \cup ApplyCalls \cup LookupCalls
    /\ tres = [done |-> FALSE]
    /\ raw_data = <<>>
    /\ loaded_data = <<>>
    /\ meta_data = FALSE
    /\ heap = <<>>
    /\ processed_data = <<>>
    /\ filters = <<>>
    /\ filters_type = "list"
    /\ oldFilters = NoFilters
    /\ copied_filters = [set |-> FALSE, type |-> "list", items |-> <<>>]
    /\ table = <<>>
    /\ error = ""
    /\ last = "init"
    /\ steps = 0

\* Data(...).apply_all_filters() with raw_data and filters as given
CallRun ==
    /\ targs.call = "run" /\ ~tres.done
    /\ LET w == apply_all_filters(targs.raw, targs.fl)
       IN  tres' = [done |-> TRUE, raw |-> w.raw, pd |-> w.pd, err |-> w.err, at |-> w.at]
    /\ UNCHANGED <<guiVars, targs>>

\* filters.apply(data, filter_settings); every transform ends with "return data", so
\* the list it was given (arg) and the list it returns (out) are one list
CallApply ==
    /\ targs.call = "apply" /\ ~tres.done
    /\ LET r == apply(targs.data, targs.fs)
       IN  tres' = [done |-> TRUE, err |-> r.err, out |-> r.out, arg |-> r.out,
                    twice |-> FALSE]
    /\ UNCHANGED <<guiVars, targs>>

\* filters.apply called once more, on the list the first call returned
CallApplyAgain ==
    /\ targs.call = "apply" /\ tres.done /\ ~tres.twice /\ tres.err = ""
    /\ targs.fs \in ValueFilters
    /\ LET r == apply([i \in 1..Len(tres.out) |-> tres.out[i].a], targs.fs)
       IN  tres' = [tres EXCEPT !.twice = TRUE, !.err = r.err, !.out = r.out, !.arg = r.out]
    /\ UNCHANGED <<guiVars, targs>>

\* filters.get_list(filter_name)
CallGetList ==
    /\ targs.call = "get_list" /\ ~tres.done
    /\ LET r == get_list(targs.name)
       IN  tres' = [done |-> TRUE, err |-> r.err, list |-> r.list]
    /\ UNCHANGED <<guiVars, targs>>

NextCall ==
    \/ CallRun
    \/ CallApply
    \/ CallApplyAgain
    \/ CallGetList

SpecCall == InitCall /\ [][NextCall]_vars

Ran == tres.done /\ targs.call = "run"

Applied == tres.done /\ targs.call = "apply" /\ ~tres.twice

AppliedTwice == tres.done /\ targs.call = "apply" /\ tres.twice

LookedUp == tres.done /\ targs.call = "get_list"

----------------------------------------------------------------------------
(* Properties of the pipeline and of the editor's handlers.                *)

Shapes(out) == {out[i].a.shape : i \in 1..Len(out)}

RunValues == Values(tres.raw, tres.pd)

\* C1: after any sequence of filter-list operations, once the operation has returned
\* (no exception is pending), processed data equals the run of the current filter list,
\* in list order and skipping disabled entries, on a fresh copy of raw data
C1_ProcessedIsRunOfList ==
    error = "" =>
        LET run == apply_all_filters(raw_data, filters)
        IN  run.err = "" /\ Values(raw_data, processed_data) = Values(run.raw, run.pd)

\* C2: a run over a list whose instances are all disabled returns a tuple equal to raw,
\* element for element, made of arrays that are not the arrays of raw
C2_AllDisabledIsCopy ==
    (Ran /\ \A k \in 1..Len(targs.fl) : targs.fl[k].Checked = 0) =>
        /\ tres.err = ""
        /\ RunValues = targs.raw
        /\ \A i \in 1..Len(tres.pd) : tres.pd[i].ref = 0
        /\ tres.raw = targs.raw

C2_Witness ==
    /\ Ran /\ Len(targs.fl) = MaxRunLen
    /\ \A k \in 1..Len(targs.fl) : targs.fl[k].Checked = 0
    /\ targs.fl[1].Name = "Offset" /\ targs.fl[2].Name = "Multiply"
    /\ RunValues = targs.raw

OffsetZ(a) == Filter("Offset", "Z", a, "", 2)

MultiplyZ(b) == Filter("Multiply", "Z", b, "", 2)

\* C3: enabled filters are applied in list order: on a 3-array tuple the list
\* [Offset Z by a, Multiply Z by b] yields (Z+a)*b and [Multiply Z by b, Offset Z by a]
\* yields Z*b+a, X and Y staying as they are
C3_ListOrder ==
    (Ran /\ Len(targs.raw) = 3) =>
        \A a \in {"1", "3"}, b \in {"2", "-1"} :
            /\ targs.fl = <<OffsetZ(a), MultiplyZ(b)>> =>
                 /\ tres.err = ""
                 /\ RunValues = [targs.raw EXCEPT ![3] =
                        MapArr(@, LAMBDA z : (z + Parse(a)) * Parse(b))]
            /\ targs.fl = <<MultiplyZ(b), OffsetZ(a)>> =>
                 /\ tres.err = ""
                 /\ RunValues = [targs.raw EXCEPT ![3] =
                        MapArr(@, LAMBDA z : z * Parse(b) + Parse(a))]

C3_Witness ==
    /\ Ran /\ Len(targs.raw) = 3
    /\ targs.fl = <<OffsetZ("3"), MultiplyZ("2")>>
    /\ RunValues[3] = MapArr(targs.raw[3], LAMBDA z : (z + 3) * 2)
    /\ RunValues[3] # MapArr(targs.raw[3], LAMBDA z : z * 2 + 3)

\* C4: from an empty list on a fresh copy of raw, filters appended one at a time through
\* apply_filter leave processed data as one apply_all_filters over the whole list leaves it
C4_IncrementalEqualsFull ==
    LET run == apply_all_filters(loaded_data, filters)
    IN  Values(raw_data, processed_data) = Values(run.raw, run.pd)

\* C5: no run and no transform, finished or failed part-way, changes raw data: it is
\* always the data as loaded
C5_RawUnchanged == raw_data = loaded_data

C5_Witness ==
    /\ error # ""
    /\ last = "load"
    /\ Values(raw_data, processed_data) # raw_data
    /\ raw_data = loaded_data

\* C6: for consistent input shapes and every integer setting, the arrays returned by
\* Crop X, Crop Y, Cut X, Cut Y and Interp all have one shape
C6_OutputShapesAgree ==
    (Applied /\ targs.fs.Name \in {"Crop X", "Crop Y", "Cut X", "Cut Y", "Interp"}
             /\ tres.err = "") =>
        Cardinality(Shapes(tres.out)) = 1

Crop1D ==
    /\ Applied /\ Len(targs.data) = 2
    /\ targs.fs.Name = "Crop X" /\ targs.fs.Method = "Absolute"
    /\ CanParse(targs.fs.Setting1) /\ CanParse(targs.fs.Setting2)
    /\ Parse(targs.fs.Setting1) < Parse(targs.fs.Setting2)

InRange(x) == Parse(targs.fs.Setting1) <= x /\ x <= Parse(targs.fs.Setting2)

\* the crop interval reaches into the range of X: max(X) > left and min(X) < right
CropActs ==
    /\ SeqMax(targs.data[1].v) > Parse(targs.fs.Setting1)
    /\ SeqMin(targs.data[1].v) < Parse(targs.fs.Setting2)

BadOffsetAt(fl, k) ==
    /\ fl[k].Name = "Offset" /\ fl[k].Checked # 0 /\ ~CanParse(fl[k].Setting1)
    /\ \A j \in 1..(k - 1) :
         fl[j].Checked = 0 \/ (fl[j].Name \in filter_functions /\ CanParse(fl[j].Setting1))
         \/ fl[j].Name = "Swap XY"

\* C8: a run over a list with an enabled Offset whose Setting 1 is not a number reports
\* an error for that instance, stopping at its index; it never ends unreported
C8_BadOffsetReported ==
    Ran => \A k \in 1..Len(targs.fl) :
               BadOffsetAt(targs.fl, k) => tres.err # "" /\ tres.at = k

\* C9: when an edit of a table cell fails in the re-run, the filter list becomes the
\* list held before the edit, and processed data is the run of that list on raw data
C9_FailedEditRestores ==
    [][(last' = "revert" /\ steps' # steps) =>
          /\ filters' = filters
          /\ filters_type' = filters_type
          /\ oldFilters' = [type |-> filters_type, items |-> filters]
          /\ raw_data' = raw_data
          /\ processed_data' = apply_all_filters(raw_data, filters).pd
          /\ table' = show_current_filters(filters)]_vars

C9_Witness ==
    /\ last = "revert"
    /\ filters # <<>>
    /\ error = ""
    /\ Values(raw_data, processed_data) # raw_data

\* C10 as stated: a lookup with a name that is not registered fails and returns neither
\* a method list nor a transformed tuple
C10_UnknownNameFails ==
    /\ (LookedUp /\ targs.name \notin filter_functions) =>
           tres.err # "" /\ tres.list = <<>>
    /\ (Applied /\ targs.fs.Name \notin filter_functions) =>
           tres.err # "" /\ tres.out = Same(targs.data)

\* C10: get_list with a non-empty name that is not registered fails with KeyError and
\* returns no list, while get_list with the empty name returns the list of all
\* registered names; apply with an instance whose name is not registered (the empty
\* name included) fails with KeyError and leaves the tuple as it was
C10_UnknownNameKeyError ==
    /\ (LookedUp /\ targs.name \notin filter_functions /\ targs.name # "") =>
           tres.err = "KeyError" /\ tres.list = <<>>
    /\ (LookedUp /\ targs.name = "") =>
           tres.err = "" /\ tres.list = filter_names
    /\ (Applied /\ targs.fs.Name \notin filter_functions) =>
           tres.err = "KeyError" /\ tres.out = Same(targs.data)

C10_Witness ==
    /\ LookedUp
    /\ targs.name = "Invert"
    /\ tres.err = "KeyError"

\* an array without entries: one of its dimensions is 0, or every sample is masked
Empty(a) ==
    \/ \E d \in 1..Len(a.shape) : a.shape[d] = 0
    \/ ndim(a) = 1 /\ \A k \in 1..Len(a.mask) : a.mask[k]

\* C11: a crop or a cut whose result would have no sample does not return: it fails
\* (so a tuple that is returned has no empty array)
C11_EmptyResultFails ==
    (Applied /\ targs.fs.Name \in {"Crop X", "Crop Y", "Cut X", "Cut Y"} /\ tres.err = "") =>
        \A i \in 1..Len(tres.out) : ~Empty(tres.out[i].a)

----------------------------------------------------------------------------
(* Two runs of apply_all_filters side by side, one per Data object: the    *)
(* objects hold the same raw arrays (a dataset and its duplicate), each    *)
(* has its own filter list and its own processed_data.  A run is           *)
(* processed_to_raw, then one filter of its list per step.                 *)

MaxParLen == 2

ParFilters ==
    {Filter("Offset", "X", "1", "", 2), Filter("Multiply", "Z", "2", "", 2),
     Filter("Swap XY", "", "", "", 2)}

ParLists == UNION {[1..n -> ParFilters] : n \in 1..MaxParLen}

\* a run that has not started
Idle == [k |-> 0, pd |-> <<>>, err |-> ""]

InitPar ==
    /\ targs \in {[call |-> "par", raw |-> r, fls |-> <<l1, l2>>] :
                     r \in RawChoices, l1 \in ParLists, l2 \in ParLists}
    /\ tres = [raw |-> targs.raw, runs |-> <<Idle, Idle>>]
    /\ raw_data = <<>>
    /\ loaded_data = <<>>
    /\ meta_data = FALSE
    /\ heap = <<>>
    /\ processed_data = <<>>
    /\ filters = <<>>
    /\ filters_type = "list"
    /\ oldFilters = NoFilters
    /\ copied_filters = [set |-> FALSE, type |-> "list", items |-> <<>>]
    /\ table = <<>>
    /\ error = ""
    /\ last = "init"
    /\ steps = 0

\* run r starts: self.processed_to_raw()
ParCopy(r) ==
    /\ tres.runs[r].k = 0
    /\ tres' = [tres EXCEPT !.runs[r] = [k |-> 1, pd |-> processed_to_raw(tres.raw),
                                         err |-> ""]]
    /\ UNCHANGED <<guiVars, targs>>

\* run r applies the next filter of its list to its processed_data
ParFilter(r) ==
    LET run == tres.runs[r]
        fl == targs.fls[r]
    IN  /\ run.k >= 1 /\ run.k <= Len(fl) /\ run.err = ""
        /\ LET w == IF fl[run.k].Checked # 0
                    THEN ApplyOne([raw |-> tres.raw, pd |-> run.pd, err |-> "", at |-> 0],
                                  fl[run.k], run.k)
                    ELSE [raw |-> tres.raw, pd |-> run.pd, err |-> "", at |-> 0]
           IN  tres' = [tres EXCEPT !.raw = w.raw,
                                    !.runs[r] = [k |-> run.k + 1, pd |-> w.pd, err |-> w.err]]
        /\ UNCHANGED <<guiVars, targs>>

NextPar ==
    \/ \E r \in 1..2 : ParCopy(r)
    \/ \E r \in 1..2 : ParFilter(r)

SpecPar == InitPar /\ [][NextPar]_vars

ParDone(r) == tres.runs[r].k > Len(targs.fls[r]) \/ tres.runs[r].err # ""

\* C13: two runs over the same raw arrays, each with its own list, interleaved in any
\* order: a run that has finished holds what it yields when run alone, and raw data is
\* as it was, at every step
C13_RunsDoNotInterfere ==
    /\ tres.raw = targs.raw
    /\ \A r \in 1..2 :
          ParDone(r) =>
              LET alone == apply_all_filters(targs.raw, targs.fls[r])
              IN  /\ Values(tres.raw, tres.runs[r].pd) = Values(alone.raw, alone.pd)
                  /\ tres.runs[r].err = alone.err

C13_Witness ==
    /\ ParDone(1) /\ ParDone(2)
    /\ targs.fls[1] = <<Filter("Offset", "X", "1", "", 2), Filter("Swap XY", "", "", "", 2)>>
    /\ targs.fls[2] = <<Filter("Multiply", "Z", "2", "", 2), Filter("Offset", "X", "1", "", 2)>>
    /\ Len(targs.raw) = 3
    /\ Values(tres.raw, tres.runs[1].pd) # Values(tres.raw, tres.runs[2].pd)

\* C14: a filter list loaded back from a file (load_filters leaves it in the array
\* np.load returned) supports the later operations of a list built interactively: adding a filter appends one instance to it, and removing the
\* current row takes one instance out of it
C14_LoadedListSupportsOperations ==
    [][(steps' # steps /\ filters_type = "ndarray") =>
          /\ (last' = "add") =>
                 /\ Len(filters') = Len(filters) + 1
                 /\ SubSeq(filters', 1, Len(filters)) = filters
          /\ (last' = "remove") => Len(filters') = Len(filters) - 1]_vars

----------------------------------------------------------------------------
(* Refreshing a dataset.  The dataset may have a meta.json; its channels   *)
(* are none of those meta_unit_conversion converts, so the conversion adds *)
(* no filter, rcfilter_correct and four_terminal are False.                *)

\* the filters meta_unit_conversion appends to the list it is given
meta_unit_conversion(fl) == fl

\* Data.refresh_data: load_data reads the file again, then apply_all_filters, which
\* with a meta.json and refresh_unit_conversion empties the filter list first
refresh_data(loaded, fl, type, old, tbl, meta, refresh_unit_conversion) ==
    LET reset == meta /\ refresh_unit_conversion
        fl1 == IF reset THEN meta_unit_conversion(<<>>) ELSE fl
        run == apply_all_filters(loaded, fl1)
    IN  Outcome(run.raw, run.pd, fl1, IF reset THEN "list" ELSE type, old, tbl, run.err)

\* Editor.refresh_plot
refresh_plot(loaded, fl, type, old, tbl, meta) ==
    refresh_data(loaded, fl, type, old, tbl, meta, FALSE)

\* Editor.plot_setting_edited for the setting 'columns', the value naming the columns
\* already shown; an exception ends in paste_plot_settings(which='old')
plot_setting_edited_columns(loaded, fl, type, old, tbl, meta) ==
    LET o == refresh_data(loaded, fl, type, old, tbl, meta, TRUE)
    IN  IF o.err # "" THEN [o EXCEPT !.err = ""]
        ELSE [o EXCEPT !.tbl = show_current_filters(o.fl)]

InitMeta ==
    /\ raw_data \in RawChoices
    /\ loaded_data = raw_data
    /\ meta_data \in BOOLEAN
    /\ heap = <<>>
    /\ processed_data = apply_all_filters(raw_data, <<>>).pd
    /\ filters = <<>>
    /\ filters_type = "list"
    /\ oldFilters = NoFilters
    /\ copied_filters = [set |-> FALSE, type |-> "list", items |-> <<>>]
    /\ table = <<>>
    /\ error = ""
    /\ last = "init"
    /\ steps = 0
    /\ targs = <<>>
    /\ tres = <<>>

RefreshPlot ==
    Becomes(refresh_plot(loaded_data, filters, filters_type, oldFilters, table, meta_data),
            "refresh")

ColumnsEdited ==
    Becomes(plot_setting_edited_columns(loaded_data, filters, filters_type, oldFilters,
                                        table, meta_data), "columns")

NextMeta ==
    \/ AddFilter /\ Tick
    \/ EditFilter /\ Tick
    \/ RefreshPlot /\ Tick
    \/ ColumnsEdited /\ Tick

SpecMeta == InitMeta /\ [][NextMeta]_vars

\* C15: a filter instance stays in the list until the user removes it or clears the
\* list: refreshing the data leaves the list as it is, and an edit (a toggle of the
\* check box included) leaves every instance in its place under its name
C15_InstancesStay ==
    [][(steps' # steps) =>
          /\ (last' \in {"refresh", "columns"}) => filters' = filters
          /\ (last' \in {"edit", "revert"}) =>
                 /\ Len(filters') = Len(filters)
                 /\ \A k \in 1..Len(filters) : filters'[k].Name = filters[k].Name]_vars

\* C16: Multiply whose Setting 1 is the string "e^2/h" is accepted: the call returns
\* (and scales the named array, by 0.0258128)
C16_AliasAccepted ==
    (Applied /\ targs.fs.Name = "Multiply" /\ targs.fs.Setting1 = "e^2/h") =>
        tres.err = ""

Swapped == Applied /\ targs.fs.Name = "Swap XY"

\* C17 as stated: Swap XY exchanges the arrays at positions 0 and 1 and the dependent
\* array is still the last element, for 3-array and 2-array tuples alike
C17_SwapKeepsDependentLast ==
    Swapped =>
        /\ tres.err = ""
        /\ tres.out[1].a = targs.data[2] /\ tres.out[2].a = targs.data[1]
        /\ tres.out[Len(tres.out)].a = targs.data[Len(targs.data)]

\* C17: Swap XY exchanges the arrays at positions 0 and 1; in a 3-array tuple the
\* dependent array stays last, in a 2-array tuple the dependent array (position 1)
\* becomes position 0 and the coordinate array becomes the last element
C17_SwapExchangesFirstTwo ==
    Swapped =>
        /\ tres.err = ""
        /\ Len(tres.out) = Len(targs.data)
        /\ tres.out[1] = Keep(targs.data, 2)
        /\ tres.out[2] = Keep(targs.data, 1)
        /\ Len(targs.data) = 3 => tres.out[3] = Keep(targs.data, 3)

C17_Witness ==
    /\ Swapped
    /\ targs.data = Trace(MaxLen)
    /\ tres.out[1].a = targs.data[2]
    /\ tres.out[2].a = targs.data[1]
    /\ tres.out[2].a # targs.data[2]

\* C18: Flip applied twice with one method returns a dependent array equal to the
\* original and leaves the coordinate arrays as they were, for Left Right and Up Down,
\* on 3-array and on 2-array tuples: neither call fails, and after the second the
\* arrays are those passed in
C18_FlipTwiceIsIdentity ==
    /\ (Applied /\ targs.fs.Name = "Flip") => tres.err = ""
    /\ (AppliedTwice /\ targs.fs.Name = "Flip") =>
           /\ tres.err = ""
           /\ \A i \in 1..Len(targs.data) : tres.out[i].a = targs.data[i]

\* a call of Crop X, or of Crop Y on a 3-array tuple, with numeric bounds
CropCall ==
    /\ Applied
    /\ \/ targs.fs.Name = "Crop X"
       \/ targs.fs.Name = "Crop Y" /\ Len(targs.data) = 3
    /\ targs.fs.Method \in {"Absolute", "Relative"}
    /\ CanParse(targs.fs.Setting1) /\ CanParse(targs.fs.Setting2)

\* the coordinate array the crop is named after
CropCoordinate == Elems(targs.data[IF targs.fs.Name = "Crop X" THEN 1 ELSE 2])

\* left >= right, or [left, right] lies entirely outside [min, max] of the coordinate
CropIsVoid ==
    LET left == Parse(targs.fs.Setting1)
        right == Parse(targs.fs.Setting2)
    IN  \/ left >= right
        \/ right < SeqMin(CropCoordinate)
        \/ left > SeqMax(CropCoordinate)

\* C19: Crop X and Crop Y, Absolute and Relative, return the tuple they were given with
\* every array as it was whenever left >= right or [left, right] lies entirely outside
\* the range of the coordinate
C19_VoidCropIsNoOp ==
    (CropCall /\ CropIsVoid) => tres.err = "" /\ tres.out = Same(targs.data)

\* a crop with left = 2 >= right = 1, both inside the range 0..MaxDim-1 of X
C19_Witness ==
    /\ CropCall /\ CropIsVoid
    /\ targs.fs.Name = "Crop X" /\ targs.fs.Method = "Absolute"
    /\ targs.data = Grid(MaxDim, MaxDim)
    /\ targs.fs.Setting1 = "2" /\ targs.fs.Setting2 = "1"
    /\ tres.out = Same(targs.data)

\* a call of Cut X or Cut Y on a 3-array tuple whose start index s and width w split
\* the axis into before = [0, s), slab = [s, s + w) and after = [s + w, end)
CutAxisLen == targs.data[3].shape[IF targs.fs.Name = "Cut X" THEN 1 ELSE 2]

CutCall ==
    /\ Applied /\ targs.fs.Name \in {"Cut X", "Cut Y"} /\ Len(targs.data) = 3
    /\ CanParse(targs.fs.Setting1) /\ CanParse(targs.fs.Setting2)
    /\ Parse(targs.fs.Setting1) >= 0 /\ Parse(targs.fs.Setting2) >= 0
    /\ Parse(targs.fs.Setting1) + Parse(targs.fs.Setting2) <= CutAxisLen

Before(r) == SubSeq(r, 1, Parse(targs.fs.Setting1))

Slab(r) ==
    SubSeq(r, Parse(targs.fs.Setting1) + 1, Parse(targs.fs.Setting1) + Parse(targs.fs.Setting2))

After(r) == SubSeq(r, Parse(targs.fs.Setting1) + Parse(targs.fs.Setting2) + 1, Len(r))

\* the dependent array with its rows (Cut X) or the entries of each row (Cut Y)
\* rearranged by F
CutResult(F(_)) ==
    LET z == targs.data[3]
    IN  IF targs.fs.Name = "Cut X" THEN F(z.v)
        ELSE [i \in 1..Len(z.v) |-> F(z.v[i])]

SlabRemoved(r) == After(r) \o Before(r)

SlabMovedToEnd(r) == Before(r) \o After(r) \o Slab(r)

\* C20 as stated: Cut X / Cut Y removes the slab and returns the dependent array as
\* after followed by before
C20_CutRemovesSlab ==
    CutCall => tres.err = "" /\ tres.out[3].a.v = CutResult(SlabRemoved)

\* C20: Cut X / Cut Y leaves X and Y alone and returns the dependent array with its
\* shape kept and its pieces in the order before, after, slab: the slab is moved to
\* the end of the axis and nothing is removed
C20_CutMovesSlabToEnd ==
    CutCall =>
        /\ tres.err = ""
        /\ tres.out[1] = Keep(targs.data, 1) /\ tres.out[2] = Keep(targs.data, 2)
        /\ tres.out[3].a.shape = targs.data[3].shape
        /\ tres.out[3].a.v = CutResult(SlabMovedToEnd)

\* Cut X at s = 1 with w = 1 on a grid of MaxDim rows: the first row stays first and
\* the second one is last
C20_Witness ==
    /\ CutCall /\ targs.fs.Name = "Cut X"
    /\ targs.data = Grid(MaxDim, MaxDim)
    /\ targs.fs.Setting1 = "1" /\ targs.fs.Setting2 = "1"
    /\ tres.out[3].a.v[1] = targs.data[3].v[1]
    /\ tres.out[3].a.v[MaxDim] = targs.data[3].v[2]

\* a call of Roll X or Roll Y on a 3-array tuple with pivot p >= 0 and amount a
RollCall ==
    /\ Applied /\ targs.fs.Name \in {"Roll X", "Roll Y"} /\ Len(targs.data) = 3
    /\ CanParse(targs.fs.Setting1) /\ CanParse(targs.fs.Setting2)
    /\ Parse(targs.fs.Setting1) >= 0

\* how often the value x occurs in the two-dimensional array a
Occurrences(a, x) ==
    Cardinality({ij \in (1..a.shape[1]) \X (1..a.shape[2]) : a.v[ij[1]][ij[2]] = x})

\* C21: Roll X / Roll Y with pivot p and amount a leaves both coordinate arrays as they
\* were; Roll X leaves the columns of the dependent array before p as they were and
\* shifts the columns at or after p circularly by a along the rows, Roll Y does the same
\* with rows and columns exchanged; every value occurs as often as before
C21_RollShiftsFromPivot ==
    RollCall =>
        LET z == targs.data[3]
            o == tres.out[3].a
            p == Parse(targs.fs.Setting1)
            a == Parse(targs.fs.Setting2)
            nr == z.shape[1]
            nc == z.shape[2]
        IN  /\ tres.err = ""
            /\ tres.out[1] = Keep(targs.data, 1) /\ tres.out[2] = Keep(targs.data, 2)
            /\ o.shape = z.shape
            /\ \A i \in 1..nr : \A j \in 1..nc :
                 o.v[i][j] =
                    IF targs.fs.Name = "Roll X"
                    THEN IF j - 1 < p THEN z.v[i][j] ELSE z.v[((i - 1 - a) % nr) + 1][j]
                    ELSE IF i - 1 < p THEN z.v[i][j] ELSE z.v[i][((j - 1 - a) % nc) + 1]
            /\ \A i \in 1..nr : \A j \in 1..nc :
                 Occurrences(o, z.v[i][j]) = Occurrences(z, z.v[i][j])

\* Roll X with pivot 1 and amount 1 on the largest grid: the first column stays, the
\* last row of the second column comes first
C21_Witness ==
    /\ RollCall /\ targs.fs.Name = "Roll X"
    /\ targs.data = Grid(MaxDim, MaxDim)
    /\ targs.fs.Setting1 = "1" /\ targs.fs.Setting2 = "1"
    /\ tres.out[3].a.v[1][1] = targs.data[3].v[1][1]
    /\ tres.out[3].a.v[1][2] = targs.data[3].v[MaxDim][2]
    /\ tres.out[3].a.v[1][2] # targs.data[3].v[1][2]

\* a call of Offset, Multiply or Divide with a numeric constant whose result is made
\* of whole numbers
ConstantCall ==
    /\ Applied /\ targs.fs.Name \in {"Offset", "Multiply", "Divide"}
    /\ targs.fs.Method \in {"X", "Y", "Z"}
    /\ CanParse(targs.fs.Setting1)
    /\ tres.err # "NotModelled"

\* the named array changed elementwise by the constant
ByConstant(a) ==
    LET c == Parse(targs.fs.Setting1)
    IN  IF targs.fs.Name = "Offset" THEN MapArr(a, LAMBDA x : x + c)
        ELSE IF targs.fs.Name = "Multiply" THEN MapArr(a, LAMBDA x : x * c)
        ELSE MapArr(a, LAMBDA x : Quotient(x, c))

\* the tuple with the array at position tgt changed by the constant and every other
\* array as it was (tgt = 0: every array as it was)
OnlyChanged(tgt) ==
    /\ tres.err = ""
    /\ \A i \in 1..Len(targs.data) :
         tres.out[i] = IF i = tgt THEN InPlace(i, ByConstant(targs.data[i]))
                       ELSE Keep(targs.data, i)

\* C22 as stated: method X changes position 0, Y position 1 and Z the dependent array,
\* on 3-array and 2-array tuples alike, and nothing else changes
C22_NamedArrayChanged ==
    ConstantCall =>
        OnlyChanged(IF targs.fs.Method = "X" THEN 1
                    ELSE IF targs.fs.Method = "Y" THEN 2 ELSE Len(targs.data))

\* C22: method X changes position 0, Y position 1 and Z position 2; on a 2-array tuple,
\* which has no position 2, method Z changes nothing; the other arrays stay as they were
C22_PositionChanged ==
    ConstantCall =>
        OnlyChanged(IF targs.fs.Method = "X" THEN 1
                    ELSE IF targs.fs.Method = "Y" THEN 2
                    ELSE IF Len(targs.data) = 3 THEN 3 ELSE 0)

\* Divide with method Z and constant -1 on a trace: both arrays are as they were
C22_Witness ==
    /\ ConstantCall /\ targs.fs.Name = "Divide" /\ targs.fs.Method = "Z"
    /\ targs.fs.Setting1 = "-1"
    /\ targs.data = Trace(MaxLen)
    /\ tres.out = Same(targs.data)
    /\ ByConstant(targs.data[2]) # targs.data[2]

\* a call of Sav-Gol with an integer window length and an integer polyorder >= 0
SavGolCall ==
    /\ Applied /\ targs.fs.Name = "Sav-Gol"
    /\ CanParse(targs.fs.Setting1) /\ CanParse(targs.fs.Setting2)
    /\ Parse(targs.fs.Setting2) >= 0

\* C23: for every integer window length and every integer polyorder >= 0 the window
\* length Sav-Gol passes to savgol_filter is odd and at least polyorder + 1
C23_WindowOddAndLongEnough ==
    SavGolCall =>
        LET w == SavGolWindow(Parse(targs.fs.Setting1), Parse(targs.fs.Setting2))
        IN  w % 2 = 1 /\ w >= Parse(targs.fs.Setting2) + 1

\* a call of Derivative with integer times_x and times_y that returned
DerivativeCall ==
    /\ Applied /\ targs.fs.Name = "Derivative"
    /\ CanParse(targs.fs.Setting1) /\ CanParse(targs.fs.Setting2)
    /\ tres.err = ""

\* how often Derivative differentiates along array axis ax (0: X, 1: Y) of the tuple
TimesAlong(ax) ==
    LET times_x == Max2(Parse(targs.fs.Setting1), 0)
        times_y == Max2(Parse(targs.fs.Setting2), 0)
    IN  IF Len(targs.data) = 3 THEN (IF ax = 0 THEN times_x ELSE times_y)
        ELSE IF ax = 0 THEN times_y ELSE 0

PointsOf(t) ==
    IF ndim(t[1]) = 1
    THEN {<<t[1].v[k], t[2].v[k], t[3].v[k]>> : k \in 1..t[1].shape[1]}
    ELSE {<<t[1].v[ij[1]][ij[2]], t[2].v[ij[1]][ij[2]], t[3].v[ij[1]][ij[2]]>> :
            ij \in (1..t[1].shape[1]) \X (1..t[1].shape[2])}

\* a call of Crop X (Absolute) on a 3-array tuple with left < right reaching into the
\* range of the coordinate at position 0
Crop2D ==
    /\ Applied /\ Len(targs.data) = 3
    /\ targs.fs.Name = "Crop X" /\ targs.fs.Method = "Absolute"
    /\ CanParse(targs.fs.Setting1) /\ CanParse(targs.fs.Setting2)
    /\ CropApplies(Parse(targs.fs.Setting1), Parse(targs.fs.Setting2),
                   SeqMin(Elems(targs.data[1])), SeqMax(Elems(targs.data[1])))

\* C25: Crop X (Absolute) on a 3-array tuple, one produced by Swap XY included, returns
\* arrays of one shape holding exactly the grid points whose coordinate at position 0
\* lies in [left, right]
C25_CropKeepsInRangePoints ==
    Crop2D =>
        /\ tres.err = ""
        /\ Cardinality(Shapes(tres.out)) = 1
        /\ PointsOf([i \in 1..3 |-> tres.out[i].a])
             = {pt \in PointsOf(targs.data) : InRange(pt[1])}

\* table row i shows list entry i
RowShows(row, settings) ==
    /\ row.Name = settings.Name
    /\ row.Method = settings.Method
    /\ row.Setting1 = settings.Setting1 /\ row.Setting2 = settings.Setting2
    /\ (row.Checked # 0) = (settings.Checked # 0)

\* C26: after any sequence of add, edit, remove, clear, move, paste and load, an add
\* whose transform raises included, the filter table has as many rows as the filter
\* list has entries and row i shows the name, method, settings and checked state of
\* list entry i
C26_TableShowsList ==
    /\ Len(table) = Len(filters)
    /\ \A i \in 1..Len(table) : RowShows(table[i], filters[i])

\* C27: an add whose transform fails has no effect: the filter list and the processed
\* data are the same as before the add
C27_FailedAddHasNoEffect ==
    [][(AddFilter /\ error' # "") =>
           (filters' = filters /\ processed_data' = processed_data)]_vars

----------------------------------------------------------------------------
(* Who owns which record.  SpecShare has the datasets of the file list and *)
(* the clipboard of the editor with their Python objects by identity: heap *)
(* is the sequence of objects alive, a list object [kind, items] holding   *)
(* the identities of its records and a dict object [kind, rec] a filter    *)
(* instance; filters[d] and oldFilters[d] are the list objects of dataset  *)
(* d (0: no such dataset / attribute not set yet) and copied_filters the   *)
(* clipboard's (0: None).  The arrays are left out, so whether a run of    *)
(* the list raises is a choice of the step.                                *)

MaxShareSteps == 3

MaxShareLen == 2

Datasets == {"A", "B"}

ListObject(ids) == [kind |-> "list", items |-> ids]

DictObject(settings) == [kind |-> "dict", rec |-> settings]

\* copy.copy(l): a new list object holding the same records
shallowcopy(h, l) == [heap |-> Append(h, ListObject(h[l].items)), id |-> Len(h) + 1]

\* copy.deepcopy(l): a new list object holding new records, one for every record of l
deepcopy(h, l) ==
    LET ids == h[l].items
        First(k) == CHOOSE j \in 1..k :
                        ids[j] = ids[k] /\ \A j2 \in 1..(j - 1) : ids[j2] # ids[k]
        firsts == {k \in 1..Len(ids) : First(k) = k}
        Rank(k) == Cardinality({j \in firsts : j <= First(k)})
        n == Cardinality(firsts)
        copies == [r \in 1..n |-> h[ids[CHOOSE k \in firsts : Rank(k) = r]]]
    IN  [heap |-> h \o copies
                    \o <<ListObject([k \in 1..Len(ids) |-> Len(h) + Rank(k)])>>,
         id |-> Len(h) + n + 1]

\* what the list object l holds, record by record (l = 0: there is no list)
Contents(h, l) ==
    IF l = 0 THEN [set |-> FALSE, items |-> <<>>]
    ELSE [set |-> TRUE, items |-> [k \in 1..Len(h[l].items) |-> h[h[l].items[k]].rec]]

InitShare ==
    /\ \E n \in 0..1 : \E b \in BOOLEAN :
         /\ heap = [k \in 1..n |-> DictObject(default_filter_settings["Offset"])]
                     \o <<ListObject([k \in 1..n |-> k])>>
                     \o (IF b THEN <<ListObject(<<>>)>> ELSE <<>>)
         /\ filters = [d \in Datasets |-> IF d = "A" THEN n + 1 ELSE IF b THEN n + 2 ELSE 0]
    /\ oldFilters = [d \in Datasets |-> 0]
    /\ copied_filters = 0
    /\ raw_data = <<>>
    /\ loaded_data = <<>>
    /\ meta_data = FALSE
    /\ processed_data = <<>>
    /\ filters_type = "list"
    /\ table = <<>>
    /\ error = ""
    /\ last = <<"init", "">>
    /\ steps = 0
    /\ targs = <<>>
    /\ tres = <<>>

\* the handler op has run with dataset d as the current item
Handled(op, d, h, fl, old, copied) ==
    /\ heap' = h
    /\ filters' = fl
    /\ oldFilters' = old
    /\ copied_filters' = copied
    /\ last' = <<op, d>>
    /\ UNCHANGED <<raw_data, loaded_data, meta_data, processed_data, filters_type, table,
                   error, targs, tres>>

\* Data(filepath, canvas): self.filters = copy.deepcopy(self.default_filters)
ShareOpen(d) ==
    /\ filters[d] = 0
    /\ Handled("open", d, Append(heap, ListObject(<<>>)),
               [filters EXCEPT ![d] = Len(heap) + 1], oldFilters, copied_filters)

\* filters_box_changed: a deep copy of the registry default is appended to the list
ShareAdd(d) ==
    /\ filters[d] # 0 /\ Len(heap[filters[d]].items) < MaxShareLen
    /\ \E name \in {"Offset", "Flip"} :
         Handled("add", d,
                 [Append(heap, DictObject(default_filter_settings[name]))
                     EXCEPT ![filters[d]].items = Append(@, Len(heap) + 1)],
                 filters, oldFilters, copied_filters)

\* filters_table_edited: the backup is taken, the record of the row is written in place
\* and, when the run raises, paste_filters('old') puts a copy of the backup back
ShareEdit(d) ==
    /\ filters[d] # 0
    /\ \E row \in 1..Len(heap[filters[d]].items) : \E raises \in BOOLEAN :
         LET backup == deepcopy(heap, filters[d])
             edited == [backup.heap EXCEPT ![heap[filters[d]].items[row]].rec.Setting1 = "2"]
             pasted == deepcopy(edited, backup.id)
         IN  IF raises
             THEN Handled("edit", d, pasted.heap, [filters EXCEPT ![d] = pasted.id],
                          [oldFilters EXCEPT ![d] = backup.id], copied_filters)
             ELSE Handled("edit", d, edited, filters,
                          [oldFilters EXCEPT ![d] = backup.id], copied_filters)

\* move_filter: two entries of the list change places
ShareMove(d) ==
    /\ filters[d] # 0
    /\ \E row \in 1..Len(heap[filters[d]].items) : \E to \in {-1, 1} :
         /\ (row > 1 /\ to = -1) \/ (row < Len(heap[filters[d]].items) /\ to = 1)
         /\ Handled("move", d, [heap EXCEPT ![filters[d]].items = Swap(@, row, row + to)],
                    filters, oldFilters, copied_filters)

\* remove_filters('current'): del data.filters[filter_row]
ShareRemove(d) ==
    /\ filters[d] # 0
    /\ \E row \in 1..Len(heap[filters[d]].items) :
         Handled("remove", d, [heap EXCEPT ![filters[d]].items = RemoveAt(@, row)],
                 filters, oldFilters, copied_filters)

\* remove_filters('all'): data.filters = []
ShareClear(d) ==
    /\ filters[d] # 0
    /\ Handled("clear", d, Append(heap, ListObject(<<>>)),
               [filters EXCEPT ![d] = Len(heap) + 1], oldFilters, copied_filters)

\* copy_filters: self.copied_filters = copy.deepcopy(data.filters)
ShareCopy(d) ==
    /\ filters[d] # 0
    /\ LET c == deepcopy(heap, filters[d])
       IN  Handled("copy", d, c.heap, filters, oldFilters, c.id)

\* paste_filters('copied'): if self.copied_filters: data.filters = copy.deepcopy(...)
SharePaste(d) ==
    /\ filters[d] # 0
    /\ IF copied_filters # 0 /\ heap[copied_filters].items # <<>>
       THEN LET c == deepcopy(heap, copied_filters)
            IN  Handled("paste", d, c.heap, [filters EXCEPT ![d] = c.id], oldFilters,
                        copied_filters)
       ELSE Handled("paste", d, heap, filters, oldFilters, copied_filters)

\* do_item_action('Duplicate...'): a new dataset whose filters are a deep copy of d's
ShareDuplicate(d) ==
    /\ filters[d] # 0
    /\ \E e \in Datasets :
         /\ filters[e] = 0
         /\ LET c == deepcopy(heap, filters[d])
            IN  Handled("duplicate", e, c.heap, [filters EXCEPT ![e] = c.id], oldFilters,
                        copied_filters)

ShareTick == steps < MaxShareSteps /\ steps' = steps + 1

NextShare ==
    \E d \in Datasets :
        \/ ShareOpen(d) /\ ShareTick
        \/ ShareAdd(d) /\ ShareTick
        \/ ShareEdit(d) /\ ShareTick
        \/ ShareMove(d) /\ ShareTick
        \/ ShareRemove(d) /\ ShareTick
        \/ ShareClear(d) /\ ShareTick
        \/ ShareCopy(d) /\ ShareTick
        \/ SharePaste(d) /\ ShareTick
        \/ ShareDuplicate(d) /\ ShareTick

SpecShare == InitShare /\ [][NextShare]_vars

\* the lists of the other datasets, their backups and the clipboard hold after the
\* step what they held before it
OthersKept(d) ==
    /\ Contents(heap', copied_filters') = Contents(heap, copied_filters)
    /\ \A e \in Datasets \ {d} :
         /\ Contents(heap', filters'[e]) = Contents(heap, filters[e])
         /\ Contents(heap', oldFilters'[e]) = Contents(heap, oldFilters[e])

\* C28: the clipboard, the datasets' filter lists and their backups share no record: an
\* add, edit, move, removal or clear on the list of one dataset leaves the clipboard
\* and the other datasets' lists and backups holding what they held, the backup of an
\* edit holds the list as it was before the edit, and the other operations leave the
\* dataset's own backup alone
C28_NoSharedRecords ==
    [][\A d \in Datasets :
         (last' \in {<<op, d>> : op \in {"add", "edit", "move", "remove", "clear"}}) =>
            /\ OthersKept(d)
            /\ Contents(heap', oldFilters'[d]) =
                  IF last'[1] = "edit" THEN Contents(heap, filters[d])
                  ELSE Contents(heap, oldFilters[d])]_vars

\* the list of A was copied and pasted into B, and B's record has been edited since:
\* the clipboard and A still hold the record as it was copied
C28_Witness ==
    /\ last = <<"edit", "B">> /\ error = ""
    /\ filters["A"] # 0 /\ copied_filters # 0
    /\ Contents(heap, copied_filters).items # <<>>
    /\ Contents(heap, copied_filters) = Contents(heap, filters["A"])
    /\ Len(Contents(heap, filters["B"]).items) = Len(Contents(heap, copied_filters).items)
    /\ Contents(heap, filters["B"]) # Contents(heap, copied_filters)

\* the step is move_filter(to) with the table's current row at row
MovedFrom(row, to) ==
    Becomes(move_filter(raw_data, processed_data, filters, filters_type, oldFilters,
                        table, row, to), "move")

ListedAll == LookedUp /\ targs.name = ""

Offered == {tres.list[i] : i \in 1..Len(tres.list)}

\* the default method of a name is one of the methods get_list(name) allows, or '' when
\* it allows none
DefaultMethodAllowed(name) ==
    LET method_list == get_list(name).list
    IN  IF method_list = <<>> THEN default_filter_settings[name].Method = ""
        ELSE \E i \in 1..Len(method_list) :
                method_list[i] = default_filter_settings[name].Method

====
